---- MODULE Spec2Model ----
(***************************************************************************)
(* A model of data_mining_flight:                                          *)
(*   truncate_data.py  - main(): daily aggregation, date selection and     *)
(*                       extraction of one day of a CSV, chunk by chunk;   *)
(*   data_fetching.py  - load_dataset(): the ladder of parsing attempts,   *)
(*                       and the script that saves the dataset and sample. *)
(*                                                                         *)
(* Text (a CSV field, a command line string) is a sequence of character    *)
(* codes, so that Python's string order and pandas' parsing of a field     *)
(* are computed and not assumed: <<49, 48>> is "10", <<>> is "".           *)
(***************************************************************************)
EXTENDS Integers, Sequences, FiniteSets, TLC

VARIABLES
    \* ---- truncate_data.py: the inputs of one run
    src,            \* the data rows of the source CSV, in file order
    has_col,        \* whether the header of the source names the date column
    chunksize,      \* args.chunksize
    arg_middle,     \* args.middle_date: None or a string
    pre_out,        \* the file at the truncated path when the run starts
    \* ---- truncate_data.py: the run
    pc,             \* position in main()
    err,            \* the exception main() ended with ("" while none)
    pos,            \* rows of src the current pass has consumed
    nread,          \* chunks the current pass has been handed
    counts,         \* compute_daily_counts: the dict date -> count
    daily_counts,   \* the table compute_daily_counts returned
    counts_file,    \* <date_column>_daily_counts.csv
    selector_called,\* whether get_middle_date was invoked
    middle_date,    \* main(): the target date
    first,          \* write_truncated_day: the flag `first`
    out_file,       \* the file at the truncated path
    writes,         \* the to_csv calls of write_truncated_day, in order
    \* ---- data_fetching.py
    outcomes,       \* what kagglehub.dataset_load does on attempts 1, 2, 3
    f_pc,           \* position in the script
    attempt,        \* index of the attempt load_dataset is about to make
    tried,          \* the attempts made so far, in order
    last_err,       \* load_dataset: last_err
    df_rows,        \* len(df) of the frame load_dataset returned
    raised,         \* the exception the script ended with ("" while none)
    full_file,      \* rows of flightprices_raw.csv (-1 while not written)
    sample_file     \* rows of the sample CSV (-1 while not written)

tvars == <<src, has_col, chunksize, arg_middle, pre_out, pc, err, pos, nread,
           counts, daily_counts, counts_file, selector_called, middle_date,
           first, out_file, writes>>
fvars == <<outcomes, f_pc, attempt, tried, last_err, df_rows, raised,
           full_file, sample_file>>
vars == <<tvars, fvars>>

-----------------------------------------------------------------------------
(* Bounds of the model.                                                    *)

\* longest source CSV, in data rows
MaxRows == 4
\* largest chunk size
MaxChunk == 3

-----------------------------------------------------------------------------
(* Text.                                                                   *)

\* character codes: '-' 45, '.' 46, '0'..'9' 48..57, 'A' 65, 'N' 78
IsDigit(c) == c \in 48..57

\* Python's  a < b  on str: lexicographic by code point
RECURSIVE StrLess(_, _)
StrLess(a, b) ==
    IF b = <<>> THEN FALSE
    ELSE IF a = <<>> THEN TRUE
    ELSE IF Head(a) # Head(b) THEN Head(a) < Head(b)
    ELSE StrLess(Tail(a), Tail(b))

\* the date fields the sources are built from:
\*   ""  "NA"  "7"  "10"  "1-2"
DateCells == { <<>>, <<78, 65>>, <<55>>, <<49, 48>>, <<49, 45, 50>> }

\* the values of --middle-date that are tried, besides its absence:
\*   ""  "NA"  "7"  "1-2"  "1-9"
OverrideStrings == { <<>>, <<78, 65>>, <<55>>, <<49, 45, 50>>, <<49, 45, 57>> }

NoneArg == [given |-> FALSE, value |-> <<>>]
StrArg(s) == [given |-> TRUE, value |-> s]

\* mutant of Truthy: the override is never honoured
OverrideIgnored(a) == FALSE

\* Python truth value of an Optional[str]: None and "" are false
Truthy(a) == a.given /\ a.value # <<>>

-----------------------------------------------------------------------------
(* pandas.read_csv, as the two passes call it.                             *)

\* the strings read_csv takes for a missing value (its default na_values),
\* among the strings over the model's alphabet: "" and "NA"
NaValues == { <<>>, <<78, 65>> }
IsNA(cell) == cell \in NaValues

\* a value of a parsed column
StrVal(s) == [kind |-> "str", s |-> s, n |-> 0]
IntVal(n) == [kind |-> "int", s |-> <<>>, n |-> n]
FloatVal(n) == [kind |-> "float", s |-> <<>>, n |-> n]
NaN == [kind |-> "nan", s |-> <<>>, n |-> 0]

Min(a, b) == IF a < b THEN a ELSE b

\* whether the chunked reader hands out another chunk after p rows and k
\* chunks: the rows left, or the one empty frame a file without data rows
\* gives as its first chunk
HasNextChunk(p, k) == p < Len(src) \/ k = 0

\* the rows of the chunk read after p rows
NextChunk(p) == SubSeq(src, p + 1, Min(p + chunksize, Len(src)))

\* the date column read with dtype "string": text kept as written, the
\* missing-value strings read as <NA>
StringColumn(chunk) ==
    [i \in 1..Len(chunk) |->
        IF IsNA(chunk[i].date) THEN NaN ELSE StrVal(chunk[i].date)]

IsIntLiteral(cell) ==
    cell # <<>> /\ \A i \in 1..Len(cell) : IsDigit(cell[i])

RECURSIVE ParseInt(_)
ParseInt(cell) ==
    IF cell = <<>> THEN 0
    ELSE 10 * ParseInt(SubSeq(cell, 1, Len(cell) - 1)) + (cell[Len(cell)] - 48)

RECURSIVE FormatInt(_)
FormatInt(n) ==
    IF n < 10 THEN <<48 + n>> ELSE Append(FormatInt(n \div 10), 48 + (n % 10))

\* the dtype read_csv infers for a column of one chunk (parsed in one piece)
\* when none is given: integers when every field is an integer literal,
\* floats when the rest are missing, text otherwise
InferDtype(cells) ==
    LET present == { i \in 1..Len(cells) : ~IsNA(cells[i]) } IN
    IF Len(cells) = 0 THEN "object"
    ELSE IF \A i \in present : IsIntLiteral(cells[i])
         THEN (IF present = 1..Len(cells) THEN "int64" ELSE "float64")
         ELSE "object"

\* the date column of one chunk read without a dtype
InferredColumn(chunk) ==
    LET cells == [i \in 1..Len(chunk) |-> chunk[i].date]
        dt == InferDtype(cells) IN
    [i \in 1..Len(chunk) |->
        IF IsNA(cells[i]) THEN NaN
        ELSE IF dt = "object" THEN StrVal(cells[i])
        ELSE IF dt = "int64" THEN IntVal(ParseInt(cells[i]))
        ELSE FloatVal(ParseInt(cells[i]))]

\* to_csv of one value: text as it is, an integer in decimal, a float with
\* its fraction, a missing value as the empty field
ToCsvField(v) ==
    IF v.kind = "str" THEN v.s
    ELSE IF v.kind = "int" THEN FormatInt(v.n)
    ELSE IF v.kind = "float" THEN FormatInt(v.n) \o <<46, 48>>
    ELSE <<>>

-----------------------------------------------------------------------------
(* compute_daily_counts                                                    *)

\* mutant of value_counts: each value of a chunk counted once
value_counts_presence(col) ==
    [d \in { col[i].s : i \in { j \in 1..Len(col) : col[j].kind = "str" } } |-> 1]

\* Series.value_counts(): occurrences of each value, missing ones dropped
value_counts(col) ==
    LET present == { i \in 1..Len(col) : col[i].kind = "str" } IN
    [d \in { col[i].s : i \in present } |->
        Cardinality({ i \in present : col[i].s = d })]

\* mutant of MergeCounts: counts[d] = int(c), the running total overwritten
MergeCountsOverwrite(c, vc) ==
    [d \in DOMAIN c \cup DOMAIN vc |-> IF d \in DOMAIN vc THEN vc[d] ELSE c[d]]

\* for d, c in vc.items(): counts[d] = counts.get(d, 0) + int(c)
MergeCounts(c, vc) ==
    [d \in DOMAIN c \cup DOMAIN vc |->
        (IF d \in DOMAIN c THEN c[d] ELSE 0) + (IF d \in DOMAIN vc THEN vc[d] ELSE 0)]

\* the least string of a non-empty set of strings
MinStr(S) == CHOOSE a \in S : \A b \in S \ {a} : StrLess(a, b)

\* sorted(counts.items()): the pairs in ascending order of their dates
RECURSIVE SortedItems(_)
SortedItems(c) ==
    IF DOMAIN c = {} THEN <<>>
    ELSE LET d == MinStr(DOMAIN c) IN
         <<[date |-> d, count |-> c[d]]>>
             \o SortedItems([k \in DOMAIN c \ {d} |-> c[k]])

-----------------------------------------------------------------------------
(* get_middle_date                                                         *)

\* the rows of t before which row i stands in a stable sort by date
RowBefore(t, i, j) ==
    StrLess(t[i].date, t[j].date) \/ (t[i].date = t[j].date /\ i < j)

\* DataFrame.sort_values(date_column): the rows in ascending order of date
SortValues(t) ==
    [k \in 1..Len(t) |->
        t[CHOOSE i \in 1..Len(t) :
            Cardinality({ j \in 1..Len(t) : RowBefore(t, j, i) }) = k - 1]]

\* mutant of MidIdx: the lower middle, (len(ordered) - 1) // 2
MidIdxLower(n) == IF n = 0 THEN 0 ELSE (n - 1) \div 2

\* mid_idx = len(ordered) // 2
MidIdx(n) == n \div 2

\* mutant of get_middle_date: an empty table answered with the empty date
\* instead of the IndexError
get_middle_date_guarded(t) ==
    IF Len(t) = 0 THEN [ok |-> TRUE, value |-> <<>>]
    ELSE [ok |-> TRUE, value |-> SortValues(t)[MidIdx(Len(t)) + 1].date]

\* ordered.iloc[mid_idx][date_column]; iloc raises IndexError past the end
get_middle_date(t) ==
    LET ordered == SortValues(t)
        mid_idx == MidIdx(Len(ordered)) IN
    IF mid_idx < Len(ordered)
    THEN [ok |-> TRUE, value |-> ordered[mid_idx + 1].date]
    ELSE [ok |-> FALSE, value |-> <<>>]

-----------------------------------------------------------------------------
(* write_truncated_day                                                     *)

\* chunk[chunk[date_column] == target_date]: the rows whose parsed date is
\* the string target_date; a number or a missing value equals no string
Filtered(chunk, target) ==
    LET col == InferredColumn(chunk)
        keep == { i \in 1..Len(chunk) : col[i].kind = "str" /\ col[i].s = target }
        RECURSIVE Pick(_)
        Pick(i) ==
            IF i > Len(chunk) THEN <<>>
            ELSE (IF i \in keep THEN <<[id |-> chunk[i].id, date |-> col[i]]>> ELSE <<>>)
                 \o Pick(i + 1)
    IN Pick(1)

\* mutant of SkipChunk: the emptiness test dropped
SkipChunkNever(filtered) == FALSE

\* if filtered.empty: continue
SkipChunk(filtered) == filtered = <<>>

HeaderLine == [hdr |-> TRUE, id |-> 0, date |-> <<>>]
RowLine(r) == [hdr |-> FALSE, id |-> r.id, date |-> ToCsvField(r.date)]

AbsentFile == [exists |-> FALSE, lines |-> <<>>]
\* a file left at the truncated path by an earlier run
StaleFile == [exists |-> TRUE,
              lines |-> <<HeaderLine, [hdr |-> FALSE, id |-> 9, date |-> <<49, 45, 50>>]>>]

\* filtered.to_csv(output_path, mode=..., index=False, header=...)
ToCsv(file, filtered, mode, header) ==
    LET rows == [i \in 1..Len(filtered) |-> RowLine(filtered[i])]
        body == (IF header THEN <<HeaderLine>> ELSE <<>>) \o rows IN
    [exists |-> TRUE, lines |-> (IF mode = "w" THEN <<>> ELSE file.lines) \o body]


-----------------------------------------------------------------------------
(* truncate_data.py: main()                                                *)

\* the sources: up to MaxRows rows, row i carrying its ordinal i in the
\* other columns and a date field of DateCells
Sources ==
    UNION { [1..n -> DateCells] : n \in 0..MaxRows }
RowsOf(dates) == [i \in 1..Len(dates) |-> [id |-> i, date |-> dates[i]]]

NoTable == <<>>
NoCountsFile == [exists |-> FALSE, table |-> <<>>]

FetchIdle ==
    /\ outcomes = <<>>
    /\ f_pc = "idle"
    /\ attempt = 0
    /\ tried = <<>>
    /\ last_err = ""
    /\ df_rows = -1
    /\ raised = ""
    /\ full_file = -1
    /\ sample_file = -1

Init ==
    /\ \E dates \in Sources : src = RowsOf(dates)
    /\ has_col \in BOOLEAN
    /\ chunksize \in 1..MaxChunk
    /\ arg_middle \in {NoneArg} \cup { StrArg(s) : s \in OverrideStrings }
    /\ pre_out \in {AbsentFile, StaleFile}
    /\ pc = "aggregate"
    /\ err = ""
    /\ pos = 0
    /\ nread = 0
    /\ counts = <<>>
    /\ daily_counts = NoTable
    /\ counts_file = NoCountsFile
    /\ selector_called = FALSE
    /\ middle_date = <<>>
    /\ first = TRUE
    /\ out_file = pre_out
    /\ writes = <<>>
    /\ FetchIdle

\* compute_daily_counts: read_csv(usecols=[date_column]) on a source whose
\* header lacks the column raises ValueError
AggMissingColumn ==
    /\ pc = "aggregate"
    /\ ~has_col
    /\ pc' = "failed"
    /\ err' = "ValueError"
    /\ UNCHANGED <<src, has_col, chunksize, arg_middle, pre_out, pos, nread,
                   counts, daily_counts, counts_file, selector_called,
                   middle_date, first, out_file, writes, fvars>>

\* compute_daily_counts: one iteration of the loop over the chunks
AggChunk ==
    /\ pc = "aggregate"
    /\ has_col
    /\ HasNextChunk(pos, nread)
    /\ LET chunk == NextChunk(pos) IN
        /\ counts' = MergeCounts(counts, value_counts(StringColumn(chunk)))
        /\ pos' = pos + Len(chunk)
        /\ nread' = nread + 1
    /\ UNCHANGED <<src, has_col, chunksize, arg_middle, pre_out, pc, err,
                   daily_counts, counts_file, selector_called, middle_date,
                   first, out_file, writes, fvars>>

\* compute_daily_counts: the table built and returned after the loop
AggReturn ==
    /\ pc = "aggregate"
    /\ has_col
    /\ ~HasNextChunk(pos, nread)
    /\ daily_counts' = SortedItems(counts)
    /\ pc' = "save_counts"
    /\ UNCHANGED <<src, has_col, chunksize, arg_middle, pre_out, err, pos,
                   nread, counts, counts_file, selector_called, middle_date,
                   first, out_file, writes, fvars>>

\* main: daily_counts.to_csv(daily_counts_path, index=False)
SaveCounts ==
    /\ pc = "save_counts"
    /\ counts_file' = [exists |-> TRUE, table |-> daily_counts]
    /\ pc' = "select"
    /\ UNCHANGED <<src, has_col, chunksize, arg_middle, pre_out, err, pos,
                   nread, counts, daily_counts, selector_called, middle_date,
                   first, out_file, writes, fvars>>

\* main: middle_date = args.middle_date or get_middle_date(...), then the
\* entry of write_truncated_day
SelectDate ==
    /\ pc = "select"
    /\ IF Truthy(arg_middle)
       THEN /\ middle_date' = arg_middle.value
            /\ selector_called' = selector_called
            /\ pc' = "extract"
            /\ err' = err
       ELSE LET r == get_middle_date(daily_counts) IN
            /\ selector_called' = TRUE
            /\ middle_date' = r.value
            /\ pc' = IF r.ok THEN "extract" ELSE "failed"
            /\ err' = IF r.ok THEN err ELSE "IndexError"
    /\ pos' = 0
    /\ nread' = 0
    /\ first' = TRUE
    /\ UNCHANGED <<src, has_col, chunksize, arg_middle, pre_out, counts,
                   daily_counts, counts_file, out_file, writes, fvars>>

\* write_truncated_day: one iteration of the loop over the chunks
ExtractChunk ==
    /\ pc = "extract"
    /\ HasNextChunk(pos, nread)
    /\ LET chunk == NextChunk(pos)
           filtered == Filtered(chunk, middle_date)
           mode == IF first THEN "w" ELSE "a" IN
        /\ pos' = pos + Len(chunk)
        /\ nread' = nread + 1
        /\ IF ~has_col
           THEN /\ pc' = "failed"
                /\ err' = "ValueError"
                /\ UNCHANGED <<first, out_file, writes>>
           ELSE /\ UNCHANGED <<pc, err>>
                /\ IF SkipChunk(filtered)
                   THEN UNCHANGED <<first, out_file, writes>>
                   ELSE /\ out_file' = ToCsv(out_file, filtered, mode, first)
                        /\ writes' = Append(writes,
                               [mode |-> mode, header |-> first,
                                rows |-> Len(filtered), chunk |-> nread + 1])
                        /\ first' = FALSE
    /\ UNCHANGED <<src, has_col, chunksize, arg_middle, pre_out, counts,
                   daily_counts, counts_file, selector_called, middle_date,
                   fvars>>

\* write_truncated_day returns; main plots and prints its summary
ExtractReturn ==
    /\ pc = "extract"
    /\ ~HasNextChunk(pos, nread)
    /\ pc' = "done"
    /\ UNCHANGED <<src, has_col, chunksize, arg_middle, pre_out, err, pos,
                   nread, counts, daily_counts, counts_file, selector_called,
                   middle_date, first, out_file, writes, fvars>>

Next ==
    \/ AggMissingColumn
    \/ AggChunk
    \/ AggReturn
    \/ SaveCounts
    \/ SelectDate
    \/ ExtractChunk
    \/ ExtractReturn

Spec == Init /\ [][Next]_vars


-----------------------------------------------------------------------------
(* Notions the claims are stated in.                                       *)

\* the indices of the source rows whose date field is the text d
RowsWithDate(d) == { i \in 1..Len(src) : src[i].date = d }

\* the source rows whose date field string-equals d, in source order
RECURSIVE MatchingFrom(_, _)
MatchingFrom(i, d) ==
    IF i > Len(src) THEN <<>>
    ELSE (IF src[i].date = d THEN <<[hdr |-> FALSE, id |-> src[i].id, date |-> d]>>
          ELSE <<>>) \o MatchingFrom(i + 1, d)

\* the same, among the first p rows
RECURSIVE MatchingUpTo(_, _)
MatchingUpTo(p, d) ==
    IF p = 0 THEN <<>>
    ELSE MatchingUpTo(p - 1, d)
         \o (IF src[p].date = d THEN <<[hdr |-> FALSE, id |-> src[p].id, date |-> d]>>
             ELSE <<>>)

RECURSIVE SumOver(_, _)
SumOver(f, S) ==
    IF S = {} THEN 0
    ELSE LET x == CHOOSE y \in S : TRUE IN f[x] + SumOver(f, S \ {x})

\* the sum of the counts of a dict
SumCounts(c) == SumOver(c, DOMAIN c)
\* the sum of the count column of a table
SumTable(t) == SumOver([i \in 1..Len(t) |-> t[i].count], 1..Len(t))

\* the count a table records for date d (0 when d is no key of it)
CountFor(t, d) ==
    SumOver([i \in 1..Len(t) |-> IF t[i].date = d THEN t[i].count ELSE 0], 1..Len(t))

\* the data lines of a file
DataLines(file) == SelectSeq(file.lines, LAMBDA l : ~l.hdr)

\* main() is past compute_daily_counts, which returned a table
TableReturned == has_col /\ pc # "aggregate"
\* main() is past the selection of the target date, which succeeded
Selected == pc \in {"extract", "done"}


-----------------------------------------------------------------------------
(* The claims about truncate_data.py.                                      *)

\* C1 (as claimed): once write_truncated_day has completed after writing at
\* least one matching row, the data rows of the output file are the source
\* rows whose date field string-equals the target date, each once, in source
\* order, and no others.
C1_OutputIsTheMatchingRows ==
    (pc = "done" /\ writes # <<>>) =>
        /\ out_file.exists
        /\ DataLines(out_file) = MatchingFrom(1, middle_date)

\* C2 (as claimed): after each chunk is merged the counts sum to the number
\* of rows consumed, and the counts of the returned table sum to the number
\* of data rows of the source.
C2_CountsSumToRows ==
    /\ (pc = "aggregate" => SumCounts(counts) = pos)
    /\ (TableReturned => SumTable(daily_counts) = Len(src))

\* C2 (amended): after each chunk is merged the counts sum to the number of
\* rows consumed whose date field is not a missing value, and the counts of
\* the returned table sum to the number of such rows of the source.
C2_CountsSumToDatedRows ==
    /\ (pc = "aggregate" =>
            SumCounts(counts) = Cardinality({ i \in 1..pos : ~IsNA(src[i].date) }))
    /\ (TableReturned =>
            SumTable(daily_counts)
                = Cardinality({ i \in 1..Len(src) : ~IsNA(src[i].date) }))

\* C2 witness: a table returned after two or more chunks, over a source with
\* a row without a date and two or more rows with one.
C2_Witness ==
    /\ pc = "save_counts"
    /\ nread >= 2
    /\ \E i \in 1..Len(src) : IsNA(src[i].date)
    /\ SumTable(daily_counts) >= 2

\* C3: whatever the chunk size, the table compute_daily_counts returns is
\* the count over the whole file: its dates are the distinct dates of the
\* source, strictly ascending, each with the number of rows that carry it.
C3_TableIsWholeFileCount ==
    TableReturned =>
        /\ \A k \in 1..Len(daily_counts) - 1 :
               StrLess(daily_counts[k].date, daily_counts[k + 1].date)
        /\ \A k \in 1..Len(daily_counts) :
               /\ ~IsNA(daily_counts[k].date)
               /\ daily_counts[k].count >= 1
               /\ daily_counts[k].count = Cardinality(RowsWithDate(daily_counts[k].date))
        /\ \A i \in 1..Len(src) :
               ~IsNA(src[i].date) =>
                   \E k \in 1..Len(daily_counts) : daily_counts[k].date = src[i].date

\* C3 witness: a table of two dates built from three rows in chunks of two
\* (a chunk size that does not divide the row count), one date in both chunks.
C3_Witness ==
    /\ pc = "save_counts"
    /\ Len(src) = 3
    /\ chunksize = 2
    /\ Len(daily_counts) = 2
    /\ src[1].date = src[3].date
    /\ ~IsNA(src[1].date)

\* C4 (as claimed): after a complete run, the number of data rows the run
\* wrote to the truncated output equals the count the daily-count table
\* records for the target date.
C4_OutputRowsEqualTableCount ==
    pc = "done" =>
        (IF writes = <<>> THEN 0 ELSE Len(DataLines(out_file)))
            = CountFor(daily_counts, middle_date)

\* C5: while and after write_truncated_day runs over a source none of whose
\* rows has the target date as its date field, nothing is written, the file
\* at the output path stays as it was, and no error is raised.
C5_NoMatchNoWrite ==
    [][(pc = "extract" /\ RowsWithDate(middle_date) = {}) =>
          /\ pc' \in {"extract", "done"}
          /\ err' = ""
          /\ writes' = <<>>
          /\ out_file' = pre_out]_vars

\* C5 witness: a run completed over two or more chunks with a target date no
\* row carries, a file of an earlier run being at the output path.
C5_Witness ==
    /\ pc = "done"
    /\ RowsWithDate(middle_date) = {}
    /\ nread >= 2
    /\ pre_out = StaleFile
    /\ out_file = StaleFile

\* C6: the date get_middle_date returns is a key of the table, recorded with
\* a count of at least 1, and exactly floor(n / 2) of the n keys sort before
\* it.
C6_MiddleIsFloorHalf ==
    (selector_called /\ Selected) =>
        /\ \E k \in 1..Len(daily_counts) :
               daily_counts[k].date = middle_date /\ daily_counts[k].count >= 1
        /\ Cardinality({ k \in 1..Len(daily_counts) :
                             StrLess(daily_counts[k].date, middle_date) })
               = Len(daily_counts) \div 2

\* C6 witness: the selection made from a table of an even number of dates.
C6_Witness ==
    /\ selector_called
    /\ pc = "extract"
    /\ Len(daily_counts) = 2

\* C7 (as claimed): with any string given as --middle-date, the run uses it
\* unchanged as the target date, never calls get_middle_date and does not
\* fail in the selection, whatever the table holds.
C7_AnyOverrideUsedAsIs ==
    (arg_middle.given /\ has_col /\ pc \notin {"aggregate", "save_counts", "select"}) =>
        /\ pc # "failed"
        /\ middle_date = arg_middle.value
        /\ ~selector_called

\* C7 (amended): with any non-empty string given as --middle-date, the run
\* uses it unchanged as the target date, never calls get_middle_date and
\* does not fail in the selection, whatever the table holds.
C7_NonEmptyOverrideUsedAsIs ==
    (arg_middle.given /\ arg_middle.value # <<>> /\ has_col
        /\ pc \notin {"aggregate", "save_counts", "select"}) =>
        /\ pc # "failed"
        /\ middle_date = arg_middle.value
        /\ ~selector_called

\* C7 witness: a run completed with an override over an empty table.
C7_Witness ==
    /\ pc = "done"
    /\ arg_middle.given
    /\ arg_middle.value # <<>>
    /\ daily_counts = <<>>
    /\ middle_date = arg_middle.value

\* C8: over a source without data rows and without --middle-date, the run
\* ends in the IndexError of the selection, with the daily-count file
\* written, the extraction pass not started and the file at the truncated
\* path untouched.
C8_EmptySourceFails ==
    (Len(src) = 0 /\ has_col /\ ~arg_middle.given
        /\ pc \notin {"aggregate", "save_counts", "select"}) =>
        /\ pc = "failed"
        /\ err = "IndexError"
        /\ selector_called
        /\ counts_file.exists
        /\ nread = 0
        /\ writes = <<>>
        /\ out_file = pre_out

\* C8 witness: the failed run over the header-only source.
C8_Witness ==
    /\ Len(src) = 0
    /\ has_col
    /\ ~arg_middle.given
    /\ pc = "failed"
    /\ err = "IndexError"

\* C10 (as claimed): during the extraction pass a chunk causes a write
\* exactly when it holds a row whose date field string-equals the target
\* date; the first write overwrites and carries the header, every later one
\* appends without header; and from the first such chunk on the file is one
\* header line followed by the matching rows of the chunks processed so far.
C10_WriteDiscipline ==
    Selected =>
        /\ \A k \in 1..nread :
               (\E i \in RowsWithDate(middle_date) :
                    (k - 1) * chunksize < i /\ i <= k * chunksize)
               <=> (\E w \in 1..Len(writes) : writes[w].chunk = k)
        /\ \A w \in 1..Len(writes) :
               /\ writes[w].mode = (IF w = 1 THEN "w" ELSE "a")
               /\ writes[w].header = (w = 1)
        /\ MatchingUpTo(pos, middle_date) # <<>> =>
               out_file = [exists |-> TRUE,
                           lines |-> <<HeaderLine>> \o MatchingUpTo(pos, middle_date)]


-----------------------------------------------------------------------------
(* data_fetching.py                                                        *)

\* n of df.sample(n=min(120000, len(df)), ...)
SampleCap == 120000

\* the ladder `attempts`, by what each entry passes to pandas
Attempts == << "default", "latin-1", "latin-1, python engine, sep=None, on_bad_lines=skip" >>

\* exception classes kagglehub.dataset_load is let to raise here: two
\* subclasses of ValueError, and one class outside it
ValueErrorClasses == { "UnicodeDecodeError", "ParserError" }
OtherErrorClasses == { "ConnectionError" }

\* lengths of the frame a successful attempt returns
DfSizes == { 0, 1, SampleCap, SampleCap + 1 }

\* what one call of kagglehub.dataset_load may do
Outcomes ==
    { [ok |-> TRUE, rows |-> n, exc |-> ""] : n \in DfSizes }
        \cup { [ok |-> FALSE, rows |-> 0, exc |-> e] :
                   e \in ValueErrorClasses \cup OtherErrorClasses }

\* mutant of Caught: except Exception
CaughtAlways(exc) == TRUE

\* except ValueError as err: the classes the handler catches
Caught(exc) == exc \in ValueErrorClasses

TruncateIdle ==
    /\ src = <<>>
    /\ has_col = TRUE
    /\ chunksize = 1
    /\ arg_middle = NoneArg
    /\ pre_out = AbsentFile
    /\ pc = "idle"
    /\ err = ""
    /\ pos = 0
    /\ nread = 0
    /\ counts = <<>>
    /\ daily_counts = NoTable
    /\ counts_file = NoCountsFile
    /\ selector_called = FALSE
    /\ middle_date = <<>>
    /\ first = TRUE
    /\ out_file = AbsentFile
    /\ writes = <<>>

InitFetch ==
    /\ outcomes \in [1..Len(Attempts) -> Outcomes]
    /\ f_pc = "load"
    /\ attempt = 1
    /\ tried = <<>>
    /\ last_err = ""
    /\ df_rows = -1
    /\ raised = ""
    /\ full_file = -1
    /\ sample_file = -1
    /\ TruncateIdle

\* load_dataset: one iteration of the loop over `attempts`
LoadAttempt ==
    /\ f_pc = "load"
    /\ attempt <= Len(Attempts)
    /\ tried' = Append(tried, Attempts[attempt])
    /\ LET o == outcomes[attempt] IN
        IF o.ok
        THEN /\ df_rows' = o.rows
             /\ f_pc' = "save_full"
             /\ UNCHANGED <<attempt, last_err, raised>>
        ELSE IF Caught(o.exc)
        THEN /\ last_err' = o.exc
             /\ attempt' = attempt + 1
             /\ UNCHANGED <<f_pc, df_rows, raised>>
        ELSE /\ raised' = o.exc
             /\ f_pc' = "crashed"
             /\ UNCHANGED <<attempt, last_err, df_rows>>
    /\ UNCHANGED <<outcomes, full_file, sample_file, tvars>>

\* load_dataset: raise last_err, once the ladder is used up
LoadExhausted ==
    /\ f_pc = "load"
    /\ attempt > Len(Attempts)
    /\ raised' = last_err
    /\ f_pc' = "crashed"
    /\ UNCHANGED <<outcomes, attempt, tried, last_err, df_rows, full_file,
                   sample_file, tvars>>

\* df.to_csv(file_path, index=False)
SaveFull ==
    /\ f_pc = "save_full"
    /\ full_file' = df_rows
    /\ f_pc' = "save_sample"
    /\ UNCHANGED <<outcomes, attempt, tried, last_err, df_rows, raised,
                   sample_file, tvars>>

\* df_sample = df.sample(n=min(120000, len(df)), random_state=42), saved
SaveSample ==
    /\ f_pc = "save_sample"
    /\ sample_file' = Min(SampleCap, df_rows)
    /\ f_pc' = "done"
    /\ UNCHANGED <<outcomes, attempt, tried, last_err, df_rows, raised,
                   full_file, tvars>>

NextFetch ==
    \/ LoadAttempt
    \/ LoadExhausted
    \/ SaveFull
    \/ SaveSample

SpecFetch == InitFetch /\ [][NextFetch]_vars

-----------------------------------------------------------------------------
(* The claim about data_fetching.py.                                       *)

\* load_dataset has returned or raised
LoadOver == f_pc # "load"

\* the first attempt whose outcome satisfies Stops, the last one if none does
RECURSIVE FirstWhere(_, _)
FirstWhere(Stops(_), k) ==
    IF k = Len(Attempts) \/ Stops(outcomes[k]) THEN k ELSE FirstWhere(Stops, k + 1)

\* C9 (as claimed): the attempts are made in order up to the first one that
\* succeeds, whose frame is returned; any failure is discarded for the next
\* attempt; an error surfaces only when all three fail, and it is the last
\* attempt's.
C9_EveryFailureRetried ==
    LoadOver =>
        LET n == FirstWhere(LAMBDA o : o.ok, 1) IN
        /\ tried = SubSeq(Attempts, 1, n)
        /\ IF outcomes[n].ok
           THEN df_rows = outcomes[n].rows /\ raised = ""
           ELSE df_rows = -1 /\ raised = outcomes[Len(Attempts)].exc

\* C9 (amended): the attempts are made in order up to the first one that
\* succeeds, whose frame is returned, or that fails with an error outside
\* ValueError, which surfaces at once; a ValueError of an attempt is
\* discarded for the next attempt; when all three fail with a ValueError,
\* the last attempt's surfaces.
C9_ValueErrorsRetried ==
    LoadOver =>
        LET n == FirstWhere(LAMBDA o : o.ok \/ o.exc \notin ValueErrorClasses, 1) IN
        /\ tried = SubSeq(Attempts, 1, n)
        /\ IF outcomes[n].ok
           THEN df_rows = outcomes[n].rows /\ raised = ""
           ELSE df_rows = -1 /\ raised = outcomes[n].exc

\* C9 witness: all three attempts made and failed, the last with another
\* error than the first two, and that last error raised.
C9_Witness ==
    /\ f_pc = "crashed"
    /\ Len(tried) = 3
    /\ outcomes[1].exc # outcomes[3].exc
    /\ outcomes[2].exc # outcomes[3].exc
    /\ raised = outcomes[3].exc
    /\ raised \in ValueErrorClasses


====
